---- MODULE Spec2Model ----
(***************************************************************************)
(* Model of pyclustering's CCORE wrapper (pyclustering/core/wrapper.py):   *)
(* the point-set encoder create_pointer_data, the tagged package decoder   *)
(* extract_pyclustering_package, the fixed-schema decoders                 *)
(* extract_clusters and extract_dynamics, the wrappers of the engine's     *)
(* entry points, and the cluster_visualizer of pyclustering/cluster.       *)
(*                                                                         *)
(* Every wrapper function is a synchronous call: the caller is "idle",     *)
(* makes one call (the action computes the whole function body) and then   *)
(* returns to "idle".  Python values are modelled as tagged records:       *)
(* a number is [num |-> v], a list is [list |-> <<...>>], a tuple is       *)
(* [tuple |-> <<...>>]; the outcome of a call is [raise |-> "none",        *)
(* val |-> v] or [raise |-> <exception class>].                            *)
(***************************************************************************)
EXTENDS Integers, Sequences, FiniteSets, TLC

VARIABLES
    pc,       \* position of the caller: "idle" or "returned"
    call,     \* the wrapper function called and its arguments
    ret,      \* outcome of the call: a value or a raised exception
    mem,      \* foreign (engine) memory the call read: packages / result structs
    allocs,   \* ctypes objects created by the call, in creation order
    reads,    \* addresses of the foreign package headers the call dereferenced
    trace,    \* engine entry points the call invoked, in order
    debug,    \* Python's __debug__: FALSE when the interpreter runs with -O
    engine,   \* the engine's long-lived objects (networks, maps), by handle
    visualizer  \* the fields of the cluster_visualizer the caller constructed

vars == <<pc, call, ret, mem, allocs, reads, trace, debug, engine, visualizer>>

-----------------------------------------------------------------------------
(* Bounds of the model.                                                    *)

MaxPackages == 3    \* packages in one foreign package heap
MaxSize == 2        \* elements of one array: package, row, group, network
MaxCount == 3       \* rows of a sample, groups of a result, steps of a dynamic

SampleValues == {1, 2}      \* coordinates of the points of a sample
ObjectIndexes == {0, 1}     \* object indexes the engine puts in a group
DynamicValues == {5, 6}     \* oscillator values the engine reports

-----------------------------------------------------------------------------
(* Python values and call outcomes.                                        *)

Num(v) == [num |-> v]
List(s) == [list |-> s]
Tuple(s) == [tuple |-> s]

Value(v) == [raise |-> "none", val |-> v]
Raise(e) == [raise |-> e]
Raised(r) == r.raise # "none"

NoCall == [fn |-> "none"]
NoMem == [kind |-> "none"]
NoVisualizer == [constructed |-> FALSE]

-----------------------------------------------------------------------------
(* Tagged package decoder: extract_pyclustering_package.                   *)

\* The type codes of pyclustering_type_data, as wrapper.py names them.
PYCLUSTERING_TYPE_INT == "PYCLUSTERING_TYPE_INT"
PYCLUSTERING_TYPE_UNSIGNED_INT == "PYCLUSTERING_TYPE_UNSIGNED_INT"
PYCLUSTERING_TYPE_FLOAT == "PYCLUSTERING_TYPE_FLOAT"
PYCLUSTERING_TYPE_DOUBLE == "PYCLUSTERING_TYPE_DOUBLE"
PYCLUSTERING_TYPE_LONG == "PYCLUSTERING_TYPE_LONG"
PYCLUSTERING_TYPE_UNSIGNED_LONG == "PYCLUSTERING_TYPE_UNSIGNED_LONG"
PYCLUSTERING_TYPE_LIST == "PYCLUSTERING_TYPE_LIST"

\* The pointer type each scalar branch casts package.data to.
c_int == "c_int"
c_uint == "c_uint"
c_float == "c_float"
c_double == "c_double"
c_long == "c_long"
c_ulong == "c_ulong"
PointerToPackage == "POINTER(pyclustering_package)"
NonePointer == "None"

\* if / elif chain of lines 119-146: the pointer type chosen for the tag;
\* the final else leaves pointer_data = None.
CastForType(type_package) ==
    IF type_package = PYCLUSTERING_TYPE_INT THEN c_int
    ELSE IF type_package = PYCLUSTERING_TYPE_UNSIGNED_INT THEN c_uint
    ELSE IF type_package = PYCLUSTERING_TYPE_FLOAT THEN c_float
    ELSE IF type_package = PYCLUSTERING_TYPE_DOUBLE THEN c_double
    ELSE IF type_package = PYCLUSTERING_TYPE_LONG THEN c_long
    ELSE IF type_package = PYCLUSTERING_TYPE_UNSIGNED_LONG THEN c_ulong
    ELSE IF type_package = PYCLUSTERING_TYPE_LIST THEN PointerToPackage
    ELSE NonePointer

\* `ccore_package_pointer == 0`: true only of the integer 0.  The handle of
\* a top-level call is the integer the engine call returned; a sub-package
\* is passed as a ctypes pointer object, which never compares equal to 0.
IsNullHandle_never(ptr, isint) == FALSE

IsNullHandle(ptr, isint) == isint /\ ptr = 0

\* result.append(item)
AppendPrepends(result, item) == <<item>> \o result

ListAppend(result, item) == Append(result, item)

\* pointer_data[index] of a scalar array read through the cast pointer:
\* the element at that index, as a Python number.
ReadScalar(data, index) == Num(data[index + 1])

\* `assert(0)`: the statement raises AssertionError when __debug__ is true
\* and is compiled away (does nothing) when the interpreter runs with -O.
AssertZeroRaises(dbg) == dbg

\* An outcome of the decoder together with the headers it dereferenced.
Out(r, rd) == [r |-> r, rd |-> rd]

RECURSIVE extract_pyclustering_package(_, _, _, _, _)
RECURSIVE ListLoop(_, _, _, _, _, _, _)
RECURSIVE ScalarLoop(_, _, _, _)

\* Lines 141-143: for index in range(0, size): decode sub-package `index`
\* and append it; an exception raised by a recursive call propagates.
ListLoop(h, dbg, data, size, index, result, rd) ==
    IF index >= size THEN Out(Value(List(result)), rd)
    ELSE LET sub == extract_pyclustering_package(h, dbg, data[index + 1], FALSE, rd)
         IN  IF Raised(sub.r) THEN sub
             ELSE ListLoop(h, dbg, data, size, index + 1,
                           ListAppend(result, sub.r.val), sub.rd)

\* Lines 148-150: for index in range(0, size): result.append(pointer_data[index]).
ScalarLoop(data, size, index, result) ==
    IF index >= size THEN Value(List(result))
    ELSE ScalarLoop(data, size, index + 1, ListAppend(result, ReadScalar(data, index)))

\* Lines 108-152.  h is the foreign heap, ptr the address, isint whether ptr
\* is a Python int (top-level handle) or a ctypes pointer (sub-package).
extract_pyclustering_package(h, dbg, ptr, isint, rd) ==
    IF IsNullHandle(ptr, isint) THEN Out(Value(List(<<>>)), rd)
    ELSE IF ptr = 0 THEN Out(Raise("ValueError"), rd)    \* NULL pointer access
    ELSE
      LET size == h[ptr].size
          type_package == h[ptr].type
          pointer_data == CastForType(type_package)
          rd1 == rd \cup {ptr}
      IN  IF pointer_data = PointerToPackage
            THEN ListLoop(h, dbg, h[ptr].data, size, 0, <<>>, rd1)
          ELSE IF pointer_data = NonePointer /\ AssertZeroRaises(dbg)
            THEN Out(Raise("AssertionError"), rd1)
          ELSE IF pointer_data = NonePointer
            THEN \* assert compiled away: the loop of line 149 indexes None
                 IF size > 0 THEN Out(Raise("TypeError"), rd1)
                 ELSE Out(Value(List(<<>>)), rd1)
          ELSE Out(ScalarLoop(h[ptr].data, size, 0, <<>>), rd1)

\* A type code that is none of the seven recognized ones.
UnrecognizedType == "UNRECOGNIZED"

ScalarTypes ==
    { PYCLUSTERING_TYPE_INT, PYCLUSTERING_TYPE_UNSIGNED_INT, PYCLUSTERING_TYPE_FLOAT,
      PYCLUSTERING_TYPE_DOUBLE, PYCLUSTERING_TYPE_LONG, PYCLUSTERING_TYPE_UNSIGNED_LONG }

\* The scalar stored at index i (from 1) of the data array of package a:
\* every element of the heap is a different number.
ElementAt(a, i) == 10 * a + i

ScalarData(a, n) == [i \in 1..n |-> ElementAt(a, i)]

SeqsUpTo(S, n) == UNION { [1..k -> S] : k \in 0..n }

NonNull(d) == { d[i] : i \in DOMAIN d } \ {0}

\* Arrays of sub-package pointers: null or a package no list owns yet,
\* each package owned by one list.
ChildArrays(orphans) ==
    { d \in SeqsUpTo(orphans \cup {0}, MaxSize) :
        \A i, j \in DOMAIN d : (i # j /\ d[i] # 0) => d[i] # d[j] }

\* pyclustering_package structs the engine may place at address a.
PackagesAt(a, orphans) ==
    { [type |-> t, size |-> n, data |-> ScalarData(a, n)] :
        t \in ScalarTypes \cup {UnrecognizedType}, n \in 0..MaxSize }
    \cup { [type |-> PYCLUSTERING_TYPE_LIST, size |-> Len(d), data |-> d] :
             d \in ChildArrays(orphans) }

Kids(c) == IF c.type = PYCLUSTERING_TYPE_LIST THEN NonNull(c.data) ELSE {}

-----------------------------------------------------------------------------
(* The caller.                                                             *)

Init ==
    /\ pc = "idle"
    /\ call = NoCall
    /\ ret = Value(List(<<>>))
    /\ mem = NoMem
    /\ allocs = <<>>
    /\ reads = {}
    /\ trace = <<>>
    /\ debug \in BOOLEAN
    /\ engine = <<>>
    /\ visualizer = NoVisualizer

\* The caller takes the outcome; nothing of the call outlives it.
Return ==
    /\ pc = "returned"
    /\ pc' = "idle"
    /\ call' = NoCall
    /\ ret' = Value(List(<<>>))
    /\ mem' = NoMem
    /\ allocs' = <<>>
    /\ reads' = {}
    /\ trace' = <<>>
    /\ UNCHANGED <<debug, engine, visualizer>>

\* The call proper: the caller passes the handle an engine call returned,
\* 0 for "no data" or the address of the root package of heap h.
DoExtractPackage(h) ==
    \E handle \in {0, 1} :
       LET out == extract_pyclustering_package(h, debug, handle, TRUE, {})
       IN  /\ call' = [fn |-> "extract_pyclustering_package", handle |-> handle]
           /\ mem' = [kind |-> "packages", heap |-> h]
           /\ ret' = out.r
           /\ reads' = out.rd

\* The engine's package heaps: one package tree rooted at address 1, the
\* sub-packages at higher addresses than the list that owns them.  The
\* heap is chosen cell by cell, from the highest address down.
RECURSIVE WithPackageHeap(_, _, _)
WithPackageHeap(a, orphans, suffix) ==
    IF a = 0 THEN orphans \subseteq {1} /\ DoExtractPackage(suffix)
    ELSE \E c \in PackagesAt(a, orphans) :
            WithPackageHeap(a - 1, (orphans \ Kids(c)) \cup {a}, <<c>> \o suffix)

CallExtractPackage ==
    /\ pc = "idle"
    /\ \E n \in 1..MaxPackages : WithPackageHeap(n, {}, <<>>)
    /\ pc' = "returned"
    /\ UNCHANGED <<allocs, trace, debug, engine, visualizer>>

NextPackage == CallExtractPackage \/ Return

SpecPackage == Init /\ [][NextPackage]_vars

-----------------------------------------------------------------------------
(* Claims about the package decoder.                                       *)

InExtract == pc = "returned" /\ call.fn = "extract_pyclustering_package"

Recognized(t) == t \in ScalarTypes \cup {PYCLUSTERING_TYPE_LIST}

\* A well-formed package tree: recognized tags, no null sub-package.
RECURSIVE WellFormedPackage(_, _)
WellFormedPackage(h, a) ==
    /\ a # 0
    /\ Recognized(h[a].type)
    /\ h[a].type = PYCLUSTERING_TYPE_LIST =>
          \A i \in 1..h[a].size : WellFormedPackage(h, h[a].data[i])

\* The host value of the same shape as the package tree at a.
RECURSIVE TreeValue(_, _)
TreeValue(h, a) ==
    List([i \in 1..h[a].size |->
            IF h[a].type = PYCLUSTERING_TYPE_LIST THEN TreeValue(h, h[a].data[i])
            ELSE Num(h[a].data[i])])

\* C1: decoding a well-formed package tree returns the value of the same
\* shape: a scalar package of count n gives its n values in foreign order, a
\* nested-list package the decodings of its n sub-packages in order, at any
\* depth.
C1_DecodePreservesShape ==
    (InExtract /\ call.handle # 0 /\ WellFormedPackage(mem.heap, call.handle))
        => ret = Value(TreeValue(mem.heap, call.handle))

\* A list of a list of a two-element scalar run has been decoded.
C1_Witness ==
    /\ InExtract /\ call.handle = 1 /\ Len(mem.heap) = 3
    /\ mem.heap[1].type = PYCLUSTERING_TYPE_LIST /\ mem.heap[1].data = <<2>>
    /\ mem.heap[2].type = PYCLUSTERING_TYPE_LIST /\ mem.heap[2].data = <<3>>
    /\ mem.heap[3].type = PYCLUSTERING_TYPE_FLOAT /\ mem.heap[3].size = 2
    /\ ret = Value(List(<<List(<<List(<<Num(31), Num(32)>>)>>)>>))

\* C2: decoding a package whose tag is none of the seven recognized codes
\* always fails with an error and never returns a value, whatever its
\* count and also when it is a sub-package of a nested list.
C2_UnknownTagAlwaysFails ==
    (InExtract /\ \E a \in reads : ~Recognized(mem.heap[a].type))
        => Raised(ret)

\* C3: decoding the null handle yields the empty list, never an error, and
\* reads no package header.
C3_NullHandleIsEmptyList ==
    (InExtract /\ call.handle = 0) => (ret = Value(List(<<>>)) /\ reads = {})

\* The null handle has been decoded while the engine's memory held packages.
C3_Witness ==
    /\ InExtract /\ call.handle = 0
    /\ Len(mem.heap) = 2 /\ mem.heap[1].type = PYCLUSTERING_TYPE_LIST
    /\ ret = Value(List(<<>>))

-----------------------------------------------------------------------------
(* Point-set encoder: create_pointer_data.                                 *)
(* The ctypes objects the function creates are the cells of a Python-side  *)
(* heap, `allocs`; the address of an object is its index in creation order *)
(* and 0 is the null pointer.                                              *)

\* data_representation(): a zero-initialized structure (line 35).
NewDataRepresentation ==
    [ctype |-> "data_representation", number_objects |-> 0, dimension |-> 0,
     pointer_objects |-> 0]

\* (POINTER(c_double) * n)(): n null pointers (line 39).
NewPointerArray(n) == [ctype |-> "POINTER(c_double)[]", cells |-> [i \in 1..n |-> 0]]

\* (c_double * d)(): d zeros (line 42).
NewDoubleArray(d) == [ctype |-> "c_double[]", cells |-> [i \in 1..d |-> 0]]

\* Storing a Python number in a c_double cell: the number itself (the
\* coordinates of the model are small integers, exact as doubles).
ToCDouble(v) == v

\* sample[index][dimension] of line 44, 0-based.
SampleElementFirstColumn(sample, index, dimension) == sample[index + 1][1]

SampleElement(sample, index, dimension) == sample[index + 1][dimension + 1]

\* Lines 43-44: for dimension in range(0, dim): point[dimension] = sample[index][dimension];
\* indexing a row past its end raises IndexError.
RECURSIVE FillPoint(_, _, _, _, _)
FillPoint(sample, index, dim, dimension, point) ==
    IF dimension >= dim THEN [raise |-> "none", point |-> point]
    ELSE IF dimension >= Len(sample[index + 1]) THEN [raise |-> "IndexError", point |-> point]
    ELSE FillPoint(sample, index, dim, dimension + 1,
                   [point EXCEPT !.cells[dimension + 1] =
                        ToCDouble(SampleElement(sample, index, dimension))])

\* Lines 41-46: one row buffer per object, its address stored in
\* pointer_objects[index].  al is the Python-side heap, parr the address of
\* pointer_objects.
RECURSIVE RowsLoop(_, _, _, _, _, _)
RowsLoop(sample, n, dim, index, parr, al) ==
    IF index >= n THEN [raise |-> "none", allocs |-> al]
    ELSE LET filled == FillPoint(sample, index, dim, 0, NewDoubleArray(dim))
             al1 == Append(al, filled.point)
             addr == Len(al1)
         IN  IF filled.raise # "none" THEN [raise |-> filled.raise, allocs |-> al1]
             ELSE RowsLoop(sample, n, dim, index + 1, parr,
                           [al1 EXCEPT ![parr].cells[index + 1] = addr])

\* Lines 35-51.  The outcome and the ctypes objects that exist at the end.
create_pointer_data(sample) ==
    LET number_objects == Len(sample)
        al0 == <<[NewDataRepresentation EXCEPT !.number_objects = number_objects]>>
    IN  IF Len(sample) = 0
          THEN [r |-> Raise("IndexError"), allocs |-> al0]        \* sample[0]
        ELSE
          LET dimension == Len(sample[1])
              al1 == Append([al0 EXCEPT ![1].dimension = dimension],
                            NewPointerArray(number_objects))
              rows == RowsLoop(sample, number_objects, dimension, 0, 2, al1)
          IN  IF rows.raise # "none"
                THEN [r |-> Raise(rows.raise), allocs |-> rows.allocs]
              ELSE [r |-> Value([pointer |-> 1]),
                    allocs |-> [rows.allocs EXCEPT ![1].pointer_objects = 2]]

Rows == SeqsUpTo(SampleValues, MaxSize)

CallCreatePointerData ==
    /\ pc = "idle"
    /\ \E k \in 0..MaxCount : \E sample \in [1..k -> Rows] :
         LET out == create_pointer_data(sample)
         IN  /\ call' = [fn |-> "create_pointer_data", sample |-> sample]
             /\ ret' = out.r
             /\ allocs' = out.allocs
    /\ pc' = "returned"
    /\ UNCHANGED <<mem, reads, trace, debug, engine, visualizer>>

NextEncoder == CallCreatePointerData \/ Return

SpecEncoder == Init /\ [][NextEncoder]_vars

-----------------------------------------------------------------------------
(* Fixed-schema decoders: extract_clusters and extract_dynamics.           *)
(* A clustering_result in engine memory is [number_clusters,               *)
(* pointer_clusters], pointer_clusters an array of cluster_representation  *)
(* [number_objects, pointer_objects]; a dynamic_result is [size_dynamic,   *)
(* size_network, times, dynamic].  A pointer is modelled by the array it   *)
(* addresses.                                                              *)

\* objects[index_object] read through POINTER(c_uint), 0-based (line 75).
ReadObjectFirst(objects, index_object) == Num(objects[1])

ReadObject(objects, index_object) == Num(objects[index_object + 1])

\* Lines 74-75: for index_object in range(0, number_objects): append.
RECURSIVE ObjectsLoop(_, _, _, _)
ObjectsLoop(objects, number_objects, index_object, pointer_container) ==
    IF index_object >= number_objects THEN pointer_container
    ELSE ObjectsLoop(objects, number_objects, index_object + 1,
                     ListAppend(pointer_container, ReadObject(objects, index_object)))

\* Lines 66-75: for index_cluster in range(0, number_clusters): append a new
\* list and fill it with the objects of cluster index_cluster.
RECURSIVE ClustersLoop(_, _, _, _)
ClustersLoop(clusters, number_clusters, index_cluster, list_of_clusters) ==
    IF index_cluster >= number_clusters THEN list_of_clusters
    ELSE LET cluster == clusters[index_cluster + 1]
         IN  ClustersLoop(clusters, number_clusters, index_cluster + 1,
                 ListAppend(list_of_clusters,
                     List(ObjectsLoop(cluster.pointer_objects, cluster.number_objects,
                                      0, <<>>))))

\* The null pointer an engine entry point returns in place of a result
\* structure.  cast(0, POINTER(...)) is a null ctypes pointer and indexing
\* it, pointer[0], raises ValueError ("NULL pointer access").
NullPointer == [kind |-> "null"]

IsNullPointer(ccore_result) == ccore_result.kind = "null"

\* Lines 54-77.  pointer_clustering_result[0] (line 62) is the first read
\* through the result pointer.
extract_clusters(ccore_result) ==
    IF IsNullPointer(ccore_result)
      THEN Raise("ValueError")
    ELSE Value(List(ClustersLoop(ccore_result.pointer_clusters,
                                 ccore_result.number_clusters, 0, <<>>)))

\* pointer_time[index] and pointer_dynamic[object_dynamic] read through
\* POINTER(c_double), 0-based (lines 98, 104).
ReadDoubleFirst(array, index) == Num(array[1])

ReadDouble(array, index) == Num(array[index + 1])

\* Lines 103-104: for object_dynamic in range(0, size_network): append.
RECURSIVE NetworkLoop(_, _, _, _)
NetworkLoop(pointer_dynamic, size_network, object_dynamic, row) ==
    IF object_dynamic >= size_network THEN row
    ELSE NetworkLoop(pointer_dynamic, size_network, object_dynamic + 1,
                     ListAppend(row, ReadDouble(pointer_dynamic, object_dynamic)))

\* Lines 97-104: for index in range(0, size_dynamic): append the time and
\* the list of the values of step index.
RECURSIVE DynamicLoop(_, _, _, _)
DynamicLoop(res, index, times, dynamic) ==
    IF index >= res.size_dynamic THEN Tuple(<<List(times), List(dynamic)>>)
    ELSE DynamicLoop(res, index + 1,
             ListAppend(times, ReadDouble(res.times, index)),
             ListAppend(dynamic,
                 List(NetworkLoop(res.dynamic[index + 1], res.size_network, 0, <<>>))))

\* Lines 80-106.  pointer_dynamic_result[0] (line 88) is the first read
\* through the result pointer.
extract_dynamics(ccore_result) ==
    IF IsNullPointer(ccore_result)
      THEN Raise("ValueError")
    ELSE Value(DynamicLoop(ccore_result, 0, <<>>, <<>>))

\* The groups the engine may report: object indexes in any order.
Groups == SeqsUpTo(ObjectIndexes, MaxSize)

ClusteringResult(groups) ==
    [kind |-> "clustering_result",
     number_clusters |-> Len(groups),
     pointer_clusters |-> [i \in DOMAIN groups |->
         [number_objects |-> Len(groups[i]), pointer_objects |-> groups[i]]]]

\* The time the engine reports for step i (from 1).
TimeOfStep(i) == 10 * i

DynamicResult(rows, size_network) ==
    [kind |-> "dynamic_result",
     size_dynamic |-> Len(rows),
     size_network |-> size_network,
     times |-> [i \in DOMAIN rows |-> TimeOfStep(i)],
     dynamic |-> rows]

CallExtractClusters ==
    /\ pc = "idle"
    /\ \E k \in 0..MaxCount : \E groups \in [1..k -> Groups] :
         LET res == ClusteringResult(groups)
         IN  /\ call' = [fn |-> "extract_clusters"]
             /\ mem' = res
             /\ ret' = extract_clusters(res)
    /\ pc' = "returned"
    /\ UNCHANGED <<allocs, reads, trace, debug, engine, visualizer>>

CallExtractDynamics ==
    /\ pc = "idle"
    /\ \E k \in 0..MaxCount, n \in 0..MaxSize :
         \E rows \in [1..k -> [1..n -> DynamicValues]] :
            LET res == DynamicResult(rows, n)
            IN  /\ call' = [fn |-> "extract_dynamics"]
                /\ mem' = res
                /\ ret' = extract_dynamics(res)
    /\ pc' = "returned"
    /\ UNCHANGED <<allocs, reads, trace, debug, engine, visualizer>>

-----------------------------------------------------------------------------
(* What a wrapper does with the engine, in order: the entry points it      *)
(* invokes, the decoding of the result handle, the release entry points.   *)
(* The target of an event is the result handle of the call or one of the   *)
(* engine's long-lived objects.                                            *)

Result == [result |-> TRUE]
Object(h) == [object |-> h]
NoTarget == [none |-> TRUE]

EngineCall(fn, target) == [ev |-> "engine", fn |-> fn, target |-> target]
Decode(fn, decoded) ==
    [ev |-> "decode", fn |-> fn, target |-> Result, raised |-> Raised(decoded)]
Release(fn, target) == [ev |-> "release", fn |-> fn, target |-> target]

\* The statements after the engine call of a wrapper that decodes a result:
\* result = extract_...(handle); ccore.free_...(handle).  An exception of
\* the decoder leaves the function before the release.
ReleaseThenDecode(decode_fn, decoded, release_fn) ==
    <<Release(release_fn, Result), Decode(decode_fn, decoded)>>

DecodeThenRelease(decode_fn, decoded, release_fn) ==
    IF Raised(decoded) THEN <<Decode(decode_fn, decoded)>>
    ELSE <<Decode(decode_fn, decoded), Release(release_fn, Result)>>

-----------------------------------------------------------------------------
(* The dbscan wrapper.                                                     *)

\* list.remove(x): removes the first element equal to x.
RECURSIVE ListRemove(_, _)
ListRemove(list, x) ==
    IF list = <<>> THEN <<>>
    ELSE IF Head(list) = x THEN Tail(list)
    ELSE <<Head(list)>> \o ListRemove(Tail(list), x)

\* Lines 175-181, on the decoded list: noise = list[len - 1]; list.remove(noise).
\* On an empty list the index is -1 and list[-1] raises IndexError.
SplitNoise(list_of_clusters, return_noise) ==
    IF Len(list_of_clusters) = 0 THEN Raise("IndexError")
    ELSE LET noise == list_of_clusters[Len(list_of_clusters)]
             remaining == ListRemove(list_of_clusters, noise)
         IN  IF return_noise THEN Value(Tuple(<<List(remaining), noise>>))
             ELSE Value(List(remaining))

\* Lines 167-181.  engine_result is what dbscan_algorithm returns.
dbscan(sample, engine_result, return_noise) ==
    LET pointer_data == create_pointer_data(sample)
    IN  IF Raised(pointer_data.r)
          THEN [r |-> pointer_data.r, allocs |-> pointer_data.allocs,
                trace |-> <<>>, mem |-> NoMem]
        ELSE
          LET decoded == extract_clusters(engine_result)
          IN  [r |-> IF Raised(decoded) THEN decoded
                     ELSE SplitNoise(decoded.val.list, return_noise),
               allocs |-> pointer_data.allocs,
               trace |-> <<EngineCall("dbscan_algorithm", NoTarget)>>
                         \o DecodeThenRelease("extract_clusters", decoded,
                                              "free_clustering_result"),
               mem |-> engine_result]

\* The samples a caller passes to an algorithm wrapper: empty, ragged, and
\* two points of dimension two.
WrapperSamples == { <<>>, <<<<1, 2>>, <<1>>>>, <<<<1, 2>>, <<2, 1>>>> }

CallDbscan ==
    /\ pc = "idle"
    /\ \E sample \in WrapperSamples, return_noise \in BOOLEAN :
       \E k \in 0..MaxCount : \E groups \in [1..k -> Groups] :
         LET out == dbscan(sample, ClusteringResult(groups), return_noise)
         IN  /\ call' = [fn |-> "dbscan", sample |-> sample,
                         return_noise |-> return_noise]
             /\ mem' = out.mem
             /\ ret' = out.r
             /\ allocs' = out.allocs
             /\ trace' = out.trace
    /\ pc' = "returned"
    /\ UNCHANGED <<reads, debug, engine, visualizer>>

-----------------------------------------------------------------------------
(* The other wrappers of engine entry points (lines 183-509).  A wrapper   *)
(* is parameterized by what the engine does: the result structure it       *)
(* returns and, for an entry point given an object that was destroyed      *)
(* before (undefined behaviour in the engine), whether the call faults:    *)
(* ctypes on the WIN64 build raises OSError on an access violation,        *)
(* otherwise the entry point runs on the stale memory and returns.         *)

MaxObjects == 2     \* long-lived engine objects one caller creates
MaxReleases == 2    \* destroy calls one caller makes on one object

\* Python's None, the value of a function without return statement.
None == [none |-> TRUE]

\* What a wrapper leaves behind: outcome, ctypes objects created (addresses
\* relative to the create_pointer_data call that made them), events, and
\* the engine memory behind the result handle.
Frame(r, al, tr, m) == [r |-> r, allocs |-> al, trace |-> tr, mem |-> m]

\* kmeans / xmeans encode the first point set only: a faulty variant.
EncodeInputs_firstOnly(inputs) ==
    IF inputs = <<>> THEN [r |-> Value(None), allocs |-> <<>>]
    ELSE create_pointer_data(Head(inputs))

\* pointer_data = create_pointer_data(sample); pointer_centers =
\* create_pointer_data(centers): one call per point set, in order; an
\* exception of a call leaves the wrapper at once.
RECURSIVE EncodeInputs(_)
EncodeInputs(inputs) ==
    IF inputs = <<>> THEN [r |-> Value(None), allocs |-> <<>>]
    ELSE LET pointer_data == create_pointer_data(Head(inputs))
         IN  IF Raised(pointer_data.r) THEN pointer_data
             ELSE LET rest == EncodeInputs(Tail(inputs))
                  IN  [r |-> rest.r, allocs |-> pointer_data.allocs \o rest.allocs]

\* result = ccore.<entry>(...); list_of_clusters = extract_clusters(result);
\* ccore.free_clustering_result(result); return list_of_clusters.
ClusteringCall(entry, target, inputs, fault, engine_result) ==
    LET pointer_data == EncodeInputs(inputs)
    IN  IF Raised(pointer_data.r)
          THEN Frame(pointer_data.r, pointer_data.allocs, <<>>, NoMem)
        ELSE IF fault
          THEN Frame(Raise("OSError"), pointer_data.allocs,
                     <<EngineCall(entry, target)>>, NoMem)
        ELSE LET list_of_clusters == extract_clusters(engine_result)
             IN  Frame(list_of_clusters, pointer_data.allocs,
                       <<EngineCall(entry, target)>>
                       \o DecodeThenRelease("extract_clusters", list_of_clusters,
                                            "free_clustering_result"),
                       engine_result)

\* ccore_dynamic_result = ccore.<entry>(...); python_dynamic_result =
\* extract_dynamics(ccore_dynamic_result); ccore.free_dynamic_result(...);
\* return python_dynamic_result.
DynamicCall(entry, target, fault, engine_result) ==
    IF fault THEN Frame(Raise("OSError"), <<>>, <<EngineCall(entry, target)>>, NoMem)
    ELSE LET python_dynamic_result == extract_dynamics(engine_result)
         IN  Frame(python_dynamic_result, <<>>,
                   <<EngineCall(entry, target)>>
                   \o DecodeThenRelease("extract_dynamics", python_dynamic_result,
                                        "free_dynamic_result"),
                   engine_result)

\* package = ccore.<entry>(som_pointer); result =
\* extract_pyclustering_package(package); return result.
PackageCall(entry, target, fault, package, dbg) ==
    IF fault THEN Frame(Raise("OSError"), <<>>, <<EngineCall(entry, target)>>, NoMem)
    ELSE LET result == extract_pyclustering_package(package.heap, dbg,
                                                    package.handle, TRUE, {}).r
         IN  Frame(result, <<>>,
                   <<EngineCall(entry, target),
                     Decode("extract_pyclustering_package", result)>>,
                   [kind |-> "packages", heap |-> package.heap,
                    handle |-> package.handle])

\* return ccore.<entry>(pointer, ...): the number the entry point returns.
ScalarCall(entry, target, inputs, fault, value) ==
    LET pointer_data == EncodeInputs(inputs)
    IN  IF Raised(pointer_data.r)
          THEN Frame(pointer_data.r, pointer_data.allocs, <<>>, NoMem)
        ELSE IF fault
          THEN Frame(Raise("OSError"), pointer_data.allocs,
                     <<EngineCall(entry, target)>>, NoMem)
        ELSE Frame(Value(Num(value)), pointer_data.allocs,
                   <<EngineCall(entry, target)>>, NoMem)

\* pointer = ccore.<entry>(...); return pointer: the new object's handle.
CreateCall(entry, inputs, h) ==
    LET pointer_data == EncodeInputs(inputs)
    IN  IF Raised(pointer_data.r)
          THEN Frame(pointer_data.r, pointer_data.allocs, <<>>, NoMem)
        ELSE Frame(Value([pointer |-> h]), pointer_data.allocs,
                   <<EngineCall(entry, Object(h))>>, NoMem)

\* ccore.<entry>(pointer): the engine releases the object; no return value.
DestroyCall(entry, h, fault) ==
    Frame(IF fault THEN Raise("OSError") ELSE Value(None), <<>>,
          <<Release(entry, Object(h))>>, NoMem)

\* Lines 183-273.
cure(sample, engine_result) ==
    ClusteringCall("cure_algorithm", NoTarget, <<sample>>, FALSE, engine_result)
hierarchical(sample, engine_result) ==
    ClusteringCall("hierarchical_algorithm", NoTarget, <<sample>>, FALSE, engine_result)
kmeans(sample, centers, engine_result) ==
    ClusteringCall("kmeans_algorithm", NoTarget, <<sample, centers>>, FALSE, engine_result)
rock(sample, engine_result) ==
    ClusteringCall("rock_algorithm", NoTarget, <<sample>>, FALSE, engine_result)
xmeans(sample, centers, engine_result) ==
    ClusteringCall("xmeans_algorithm", NoTarget, <<sample, centers>>, FALSE, engine_result)

\* Lines 278-331: the sync network.
create_sync_network(h) == CreateCall("create_sync_network", <<>>, h)
destroy_sync_network(pointer_network, fault) ==
    DestroyCall("destroy_sync_network", pointer_network, fault)
simulate_sync_network(pointer_network, fault, engine_result) ==
    DynamicCall("simulate_sync_network", Object(pointer_network), fault, engine_result)
simulate_dynamic_sync_network(pointer_network, fault, engine_result) ==
    DynamicCall("simulate_dynamic_sync_network", Object(pointer_network), fault,
                engine_result)
allocate_sync_ensembles_sync_network(pointer_network, fault, engine_result) ==
    ClusteringCall("allocate_sync_ensembles_sync_network", Object(pointer_network),
                   <<>>, fault, engine_result)
sync_order(pointer_network, fault, value) ==
    ScalarCall("sync_order", Object(pointer_network), <<>>, fault, value)
sync_local_order(pointer_network, fault, value) ==
    ScalarCall("sync_local_order", Object(pointer_network), <<>>, fault, value)

\* Lines 336-367: the syncnet network.
create_syncnet_network(sample, h) == CreateCall("create_syncnet_network", <<sample>>, h)
destroy_syncnet_network(pointer_network, fault) ==
    DestroyCall("destroy_syncnet_network", pointer_network, fault)
process_syncnet(network_pointer, fault, engine_result) ==
    DynamicCall("process_syncnet", Object(network_pointer), fault, engine_result)
get_clusters_syncnet(pointer_network, fault, engine_result) ==
    ClusteringCall("get_clusters_syncnet", Object(pointer_network), <<>>, fault,
                   engine_result)

\* Lines 372-398: the hsyncnet network and destroy_object.
create_hsyncnet(sample, h) == CreateCall("create_hsyncnet", <<sample>>, h)
destroy_hsyncnet_network(pointer_network, fault) ==
    DestroyCall("destroy_hsyncnet_network", pointer_network, fault)
process_hsyncnet(network_pointer, fault, engine_result) ==
    DynamicCall("process_hsyncnet", Object(network_pointer), fault, engine_result)
destroy_object(pointer_object, fault) ==
    DestroyCall("destroy_object", pointer_object, fault)

\* Lines 403-509: the self-organized map.
som_create(data, h) == CreateCall("som_create", <<data>>, h)
som_destroy(som_pointer, fault) == DestroyCall("som_destroy", som_pointer, fault)
som_train(som_pointer, fault, value) ==
    ScalarCall("som_train", Object(som_pointer), <<>>, fault, value)
som_simulate(som_pointer, pattern, fault, value) ==
    ScalarCall("som_simulate", Object(som_pointer), <<pattern>>, fault, value)
som_get_winner_number(som_pointer, fault, value) ==
    ScalarCall("som_get_winner_number", Object(som_pointer), <<>>, fault, value)
som_get_size(som_pointer, fault, value) ==
    ScalarCall("som_get_size", Object(som_pointer), <<>>, fault, value)
som_get_capture_objects(som_pointer, fault, package, dbg) ==
    PackageCall("som_get_capture_objects", Object(som_pointer), fault, package, dbg)
som_get_weights(som_pointer, fault, package, dbg) ==
    PackageCall("som_get_weights", Object(som_pointer), fault, package, dbg)
som_get_awards(som_pointer, fault, package, dbg) ==
    PackageCall("som_get_awards", Object(som_pointer), fault, package, dbg)
som_get_neighbors(som_pointer, fault, package, dbg) ==
    PackageCall("som_get_neighbors", Object(som_pointer), fault, package, dbg)

-----------------------------------------------------------------------------
(* A caller of the wrappers.  It passes to a wrapper a pointer it obtained *)
(* from the creating wrapper of that kind of object; nothing in the        *)
(* wrappers records whether the pointer was destroyed since.               *)

\* What the engine returns for a clustering: no result, no group, groups.
EngineClusterings ==
    { NullPointer, ClusteringResult(<<>>), ClusteringResult(<<<<0, 1>>, <<1>>>>) }

\* What the engine returns for a dynamic: no result, two steps of two
\* oscillators.
EngineDynamics == { NullPointer, DynamicResult(<<<<5, 6>>, <<6, 5>>>>, 2) }

\* What the engine returns for a package: no data (handle 0), an array of
\* doubles, a list of one array, an array with a type code the decoder
\* does not recognize.
EnginePackages ==
    { [handle |-> 0, heap |-> <<>>],
      [handle |-> 1,
       heap |-> <<[type |-> PYCLUSTERING_TYPE_DOUBLE, size |-> 2,
                   data |-> ScalarData(1, 2)]>>],
      [handle |-> 1,
       heap |-> <<[type |-> PYCLUSTERING_TYPE_LIST, size |-> 1, data |-> <<2>>],
                  [type |-> PYCLUSTERING_TYPE_UNSIGNED_INT, size |-> 1,
                   data |-> ScalarData(2, 1)]>>],
      [handle |-> 1,
       heap |-> <<[type |-> UnrecognizedType, size |-> 1,
                   data |-> ScalarData(1, 1)]>>] }

\* The number an entry point returns (an order, a winner, a size).
EngineScalars == {1}

OneSampleAlgorithms == {"cure", "hierarchical", "rock"}
TwoSampleAlgorithms == {"kmeans", "xmeans"}
AlgorithmWrappers == {"dbscan"} \cup OneSampleAlgorithms \cup TwoSampleAlgorithms

Creators == {"create_sync_network", "create_syncnet_network", "create_hsyncnet",
             "som_create"}
Destroyers == {"destroy_sync_network", "destroy_syncnet_network",
               "destroy_hsyncnet_network", "destroy_object", "som_destroy"}
DynamicWrappers == {"simulate_sync_network", "simulate_dynamic_sync_network",
                    "process_syncnet", "process_hsyncnet"}
EnsembleWrappers == {"allocate_sync_ensembles_sync_network", "get_clusters_syncnet"}
ScalarWrappers == {"sync_order", "sync_local_order", "som_train", "som_simulate",
                   "som_get_winner_number", "som_get_size"}
PackageWrappers == {"som_get_capture_objects", "som_get_weights", "som_get_awards",
                    "som_get_neighbors"}

\* The kind of object a wrapper creates or is meant for; destroy_object is
\* meant for any.
KindOf(fn) ==
    IF fn \in {"create_sync_network", "destroy_sync_network", "simulate_sync_network",
               "simulate_dynamic_sync_network", "allocate_sync_ensembles_sync_network",
               "sync_order", "sync_local_order"} THEN "sync_network"
    ELSE IF fn \in {"create_syncnet_network", "destroy_syncnet_network",
                    "process_syncnet", "get_clusters_syncnet"} THEN "syncnet_network"
    ELSE IF fn \in {"create_hsyncnet", "destroy_hsyncnet_network", "process_hsyncnet"}
      THEN "hsyncnet"
    ELSE IF fn = "destroy_object" THEN "any"
    ELSE "som"

\* The pointers the caller holds that it may pass to wrapper fn.
PointersFor(fn) ==
    { h \in 1..Len(engine) : KindOf(fn) \in {"any", engine[h].kind} }

\* Whether the entry point given pointer h may fault.
Faults(h) == IF engine[h].releases > 0 THEN BOOLEAN ELSE {FALSE}

\* The frame becomes the state of the returned call.
Returns(out) ==
    /\ ret' = out.r
    /\ allocs' = out.allocs
    /\ trace' = out.trace
    /\ mem' = out.mem
    /\ pc' = "returned"

CallAlgorithm ==
    /\ pc = "idle"
    /\ \/ \E sample \in WrapperSamples, return_noise \in BOOLEAN,
             engine_result \in EngineClusterings :
            /\ call' = [fn |-> "dbscan", sample |-> sample,
                        return_noise |-> return_noise]
            /\ Returns(dbscan(sample, engine_result, return_noise))
       \/ \E fn \in OneSampleAlgorithms, sample \in WrapperSamples,
             engine_result \in EngineClusterings :
            /\ call' = [fn |-> fn, sample |-> sample]
            /\ Returns(CASE fn = "cure" -> cure(sample, engine_result)
                         [] fn = "hierarchical" -> hierarchical(sample, engine_result)
                         [] fn = "rock" -> rock(sample, engine_result))
       \/ \E fn \in TwoSampleAlgorithms, sample \in WrapperSamples,
             centers \in WrapperSamples, engine_result \in EngineClusterings :
            /\ call' = [fn |-> fn, sample |-> sample, centers |-> centers]
            /\ Returns(CASE fn = "kmeans" -> kmeans(sample, centers, engine_result)
                         [] fn = "xmeans" -> xmeans(sample, centers, engine_result))
    /\ UNCHANGED <<reads, debug, engine, visualizer>>

CallCreate ==
    /\ pc = "idle"
    /\ Len(engine) < MaxObjects
    /\ LET h == Len(engine) + 1
       IN  \E fn \in Creators, sample \in WrapperSamples :
             LET out == CASE fn = "create_sync_network" -> create_sync_network(h)
                          [] fn = "create_syncnet_network" ->
                               create_syncnet_network(sample, h)
                          [] fn = "create_hsyncnet" -> create_hsyncnet(sample, h)
                          [] fn = "som_create" -> som_create(sample, h)
             IN  /\ call' = IF fn = "create_sync_network" THEN [fn |-> fn]
                            ELSE [fn |-> fn, sample |-> sample]
                 /\ Returns(out)
                 /\ engine' = IF Raised(out.r) THEN engine
                              ELSE Append(engine, [kind |-> KindOf(fn), releases |-> 0])
    /\ UNCHANGED <<reads, debug, visualizer>>

CallDestroy ==
    /\ pc = "idle"
    /\ \E fn \in Destroyers : \E h \in PointersFor(fn) : \E fault \in Faults(h) :
         /\ engine[h].releases < MaxReleases
         /\ call' = [fn |-> fn, pointer |-> h]
         /\ Returns(CASE fn = "destroy_sync_network" -> destroy_sync_network(h, fault)
                      [] fn = "destroy_syncnet_network" ->
                           destroy_syncnet_network(h, fault)
                      [] fn = "destroy_hsyncnet_network" ->
                           destroy_hsyncnet_network(h, fault)
                      [] fn = "destroy_object" -> destroy_object(h, fault)
                      [] fn = "som_destroy" -> som_destroy(h, fault))
         /\ engine' = [engine EXCEPT ![h].releases = @ + 1]
    /\ UNCHANGED <<reads, debug, visualizer>>

CallDynamic ==
    /\ pc = "idle"
    /\ \E fn \in DynamicWrappers : \E h \in PointersFor(fn) : \E fault \in Faults(h) :
       \E engine_result \in EngineDynamics :
         /\ call' = [fn |-> fn, pointer |-> h]
         /\ Returns(CASE fn = "simulate_sync_network" ->
                           simulate_sync_network(h, fault, engine_result)
                      [] fn = "simulate_dynamic_sync_network" ->
                           simulate_dynamic_sync_network(h, fault, engine_result)
                      [] fn = "process_syncnet" ->
                           process_syncnet(h, fault, engine_result)
                      [] fn = "process_hsyncnet" ->
                           process_hsyncnet(h, fault, engine_result))
    /\ UNCHANGED <<reads, debug, engine, visualizer>>

CallEnsembles ==
    /\ pc = "idle"
    /\ \E fn \in EnsembleWrappers : \E h \in PointersFor(fn) : \E fault \in Faults(h) :
       \E engine_result \in EngineClusterings :
         /\ call' = [fn |-> fn, pointer |-> h]
         /\ Returns(CASE fn = "allocate_sync_ensembles_sync_network" ->
                           allocate_sync_ensembles_sync_network(h, fault, engine_result)
                      [] fn = "get_clusters_syncnet" ->
                           get_clusters_syncnet(h, fault, engine_result))
    /\ UNCHANGED <<reads, debug, engine, visualizer>>

CallScalar ==
    /\ pc = "idle"
    /\ \E fn \in ScalarWrappers : \E h \in PointersFor(fn) : \E fault \in Faults(h) :
       \E value \in EngineScalars, pattern \in WrapperSamples :
         /\ call' = IF fn = "som_simulate"
                      THEN [fn |-> fn, pointer |-> h, sample |-> pattern]
                    ELSE [fn |-> fn, pointer |-> h]
         /\ Returns(CASE fn = "sync_order" -> sync_order(h, fault, value)
                      [] fn = "sync_local_order" -> sync_local_order(h, fault, value)
                      [] fn = "som_train" -> som_train(h, fault, value)
                      [] fn = "som_simulate" -> som_simulate(h, pattern, fault, value)
                      [] fn = "som_get_winner_number" ->
                           som_get_winner_number(h, fault, value)
                      [] fn = "som_get_size" -> som_get_size(h, fault, value))
    /\ UNCHANGED <<reads, debug, engine, visualizer>>

CallPackage ==
    /\ pc = "idle"
    /\ \E fn \in PackageWrappers : \E h \in PointersFor(fn) : \E fault \in Faults(h) :
       \E package \in EnginePackages :
         /\ call' = [fn |-> fn, pointer |-> h]
         /\ Returns(CASE fn = "som_get_capture_objects" ->
                           som_get_capture_objects(h, fault, package, debug)
                      [] fn = "som_get_weights" ->
                           som_get_weights(h, fault, package, debug)
                      [] fn = "som_get_awards" ->
                           som_get_awards(h, fault, package, debug)
                      [] fn = "som_get_neighbors" ->
                           som_get_neighbors(h, fault, package, debug))
         /\ reads' = IF fault THEN {}
                     ELSE extract_pyclustering_package(package.heap, debug,
                                                       package.handle, TRUE, {}).rd
    /\ UNCHANGED <<debug, engine, visualizer>>

NextWrappers ==
    \/ CallAlgorithm
    \/ CallCreate
    \/ CallDestroy
    \/ CallDynamic
    \/ CallEnsembles
    \/ CallScalar
    \/ CallPackage
    \/ Return

SpecWrappers == Init /\ [][NextWrappers]_vars

-----------------------------------------------------------------------------
(* cluster_visualizer (pyclustering/cluster/__init__.py).  A canvas number *)
(* is 0-based as in the source; the lists of the object are sequences, so  *)
(* canvas c is element c + 1.  An object of a cluster is a Python list of  *)
(* coordinates, an index into data a Python number.                        *)

MaxCanvases == 2    \* number_canvases the caller constructs the visualizer with
MaxCalls == 3       \* method calls the caller makes on the visualizer

\* len(self.__colors)
NumColors == 20

default_2d_marker_size == 5
default_3d_marker_size == 30

Str(text) == [str |-> text]

canvas_cluster_descr(cluster, data, marker, markersize) ==
    [cluster |-> cluster, data |-> data, marker |-> marker, markersize |-> markersize]

\* cluster_visualizer.__init__
NewVisualizer(number_canvases, size_row) ==
    [constructed |-> TRUE,
     number_canvases |-> number_canvases,
     size_row |-> size_row,
     canvas_clusters |-> [i \in 1..number_canvases |-> <<>>],
     canvas_dimensions |-> [i \in 1..number_canvases |-> None],
     canvas_titles |-> [i \in 1..number_canvases |-> None],
     calls |-> 0]

\* The descriptor ends up on the first canvas: a faulty variant.
StoreDescriptorOnFirstCanvas(self, canvas, descr) ==
    [self EXCEPT !.canvas_clusters[1] = Append(@, descr)]

\* self.__canvas_clusters[canvas].append(added_canvas_descriptor)
StoreDescriptor(self, canvas, descr) ==
    [self EXCEPT !.canvas_clusters[canvas + 1] = Append(@, descr)]

\* Lines 148-150, 157: len(cluster[0]) or len(data[0]).
DimensionOf(cluster, data) ==
    IF data = None THEN Len(cluster[1].list) ELSE Len(data.list[1].list)

\* Lines 166-170: the descriptor appended last is the object the method
\* still holds; its markersize is set after it was stored.
DefaultMarkersize(self, canvas, dimension, markersize) ==
    LET last == Len(self.canvas_clusters[canvas + 1])
    IN  IF markersize # None THEN self
        ELSE IF dimension = 2
          THEN [self EXCEPT !.canvas_clusters[canvas + 1][last].markersize =
                                Num(default_2d_marker_size)]
        ELSE IF dimension = 3
          THEN [self EXCEPT !.canvas_clusters[canvas + 1][last].markersize =
                                Num(default_3d_marker_size)]
        ELSE self

\* Outcome of a method and the fields of the object after it.
Method(r, self) == [r |-> r, self |-> self]

\* Lines 137-170.
append_cluster(self, cluster, data, canvas, marker, markersize) ==
    IF Len(cluster) = 0 THEN Method(Value(None), self)
    ELSE IF canvas > self.number_canvases
      THEN Method(Raise("TypeError"), self)      \* 'Canvas does ' + canvas: str + int
    ELSE IF canvas >= Len(self.canvas_clusters)
      THEN Method(Raise("IndexError"), self)     \* self.__canvas_clusters[canvas]
    ELSE
      LET added_canvas_descriptor == canvas_cluster_descr(cluster, data, marker, markersize)
          stored == StoreDescriptor(self, canvas, added_canvas_descriptor)
          dimension == DimensionOf(cluster, data)
          recorded == [stored EXCEPT !.canvas_dimensions[canvas + 1] = Num(dimension)]
      IN  IF Len(stored.canvas_clusters[canvas + 1]) > NumColors
            THEN Method(Raise("NameError"), stored)
          ELSE IF /\ stored.canvas_dimensions[canvas + 1] # None
                  /\ stored.canvas_dimensions[canvas + 1] # Num(dimension)
            THEN Method(Raise("NameError"), stored)
          ELSE IF dimension < 1 /\ dimension > 3
            THEN Method(Raise("NameError"), recorded)
          ELSE Method(Value(None), DefaultMarkersize(recorded, canvas, dimension, markersize))

\* Lines 185-186: for cluster in clusters: self.append_cluster(...); an
\* exception ends the loop and keeps what the earlier iterations stored.
RECURSIVE append_clusters(_, _, _, _, _, _)
append_clusters(self, clusters, data, canvas, marker, markersize) ==
    IF clusters = <<>> THEN Method(Value(None), self)
    ELSE LET appended == append_cluster(self, Head(clusters), data, canvas, marker,
                                        markersize)
         IN  IF Raised(appended.r) THEN appended
             ELSE append_clusters(appended.self, Tail(clusters), data, canvas, marker,
                                  markersize)

\* Lines 198-201.
set_canvas_title(self, text, canvas) ==
    IF canvas > self.number_canvases
      THEN Method(Raise("TypeError"), self)      \* 'Canvas does ' + canvas: str + int
    ELSE IF canvas >= Len(self.canvas_titles)
      THEN Method(Raise("IndexError"), self)     \* self.__canvas_titles[canvas] = text
    ELSE Method(Value(None), [self EXCEPT !.canvas_titles[canvas + 1] = Str(text)])

\* Lines 219-237: color = self.__colors[index_cluster] for every stored
\* descriptor of every canvas; a list index out of range raises IndexError.
show(self) ==
    IF \E index_canvas \in DOMAIN self.canvas_clusters :
         \E index_cluster \in 0..(Len(self.canvas_clusters[index_canvas]) - 1) :
            index_cluster >= NumColors
      THEN Method(Raise("IndexError"), self)
    ELSE Method(Value(None), self)

\* Clusters of objects: of two coordinates, of three, of none, of four.
Objects2 == <<List(<<1, 2>>)>>
OtherObjects2 == <<List(<<2, 1>>), List(<<1, 2>>)>>
Objects3 == <<List(<<1, 2, 3>>)>>
Objects0 == <<List(<<>>)>>
Objects4 == <<List(<<1, 2, 3, 4>>)>>

\* A data list of points of two coordinates and clusters of indexes into it.
Data2 == List(<<List(<<1, 2>>), List(<<2, 1>>)>>)
Indexes0 == <<Num(0)>>
Indexes1 == <<Num(1)>>

\* cluster and data arguments of append_cluster.
ClusterArguments ==
    { [cluster |-> c, data |-> None] :
        c \in {<<>>, Objects2, OtherObjects2, Objects3, Objects0, Objects4} }
    \cup { [cluster |-> Indexes0, data |-> Data2] }

Repeat(cluster, k) == [i \in 1..k |-> cluster]

\* clusters and data arguments of append_clusters.
ClustersArguments ==
    { [clusters |-> cs, data |-> None] :
        cs \in { <<Objects2, OtherObjects2>>, <<Objects2, Objects3>>,
                 Repeat(Objects2, NumColors), Repeat(Objects2, NumColors + 1) } }
    \cup { [clusters |-> <<Indexes0, Indexes1>>, data |-> Data2] }

\* canvas arguments: the canvases, number_canvases and number_canvases + 1.
CanvasArguments == 0..(visualizer.number_canvases + 1)

Constructor ==
    /\ pc = "idle"
    /\ ~visualizer.constructed
    /\ \E number_canvases \in 1..MaxCanvases :
         /\ call' = [fn |-> "cluster_visualizer", number_canvases |-> number_canvases]
         /\ visualizer' = NewVisualizer(number_canvases, 1)
    /\ ret' = Value(None)
    /\ pc' = "returned"
    /\ UNCHANGED <<mem, allocs, reads, trace, debug, engine>>

\* The caller may make one more call on the visualizer it constructed.
MayCall == pc = "idle" /\ visualizer.constructed /\ visualizer.calls < MaxCalls

\* The method returns or raises; `before` keeps the fields the object had
\* when the method was called.
Called(out) ==
    /\ ret' = out.r
    /\ visualizer' = [out.self EXCEPT !.calls = @ + 1]
    /\ pc' = "returned"

CallAppendCluster ==
    /\ MayCall
    /\ \E arg \in ClusterArguments, canvas \in CanvasArguments :
         /\ call' = [fn |-> "append_cluster", cluster |-> arg.cluster, data |-> arg.data,
                     canvas |-> canvas, before |-> visualizer]
         /\ Called(append_cluster(visualizer, arg.cluster, arg.data, canvas, ".", None))
    /\ UNCHANGED <<mem, allocs, reads, trace, debug, engine>>

CallAppendClusters ==
    /\ MayCall
    /\ \E arg \in ClustersArguments, canvas \in CanvasArguments :
         /\ call' = [fn |-> "append_clusters", clusters |-> arg.clusters,
                     data |-> arg.data, canvas |-> canvas, before |-> visualizer]
         /\ Called(append_clusters(visualizer, arg.clusters, arg.data, canvas, ".", None))
    /\ UNCHANGED <<mem, allocs, reads, trace, debug, engine>>

CallSetCanvasTitle ==
    /\ MayCall
    /\ \E text \in {"title"}, canvas \in CanvasArguments :
         /\ call' = [fn |-> "set_canvas_title", text |-> text, canvas |-> canvas,
                     before |-> visualizer]
         /\ Called(set_canvas_title(visualizer, text, canvas))
    /\ UNCHANGED <<mem, allocs, reads, trace, debug, engine>>

CallShow ==
    /\ MayCall
    /\ call' = [fn |-> "show", before |-> visualizer]
    /\ Called(show(visualizer))
    /\ UNCHANGED <<mem, allocs, reads, trace, debug, engine>>

NextVisualizer ==
    \/ Constructor
    \/ CallAppendCluster
    \/ CallAppendClusters
    \/ CallSetCanvasTitle
    \/ CallShow
    \/ Return

SpecVisualizer == Init /\ [][NextVisualizer]_vars

NextClusters == CallExtractClusters \/ CallDbscan \/ Return

SpecClusters == Init /\ [][NextClusters]_vars

NextDynamics == CallExtractDynamics \/ Return

SpecDynamics == Init /\ [][NextDynamics]_vars

Next ==
    \/ CallExtractPackage
    \/ CallCreatePointerData
    \/ CallExtractClusters
    \/ CallExtractDynamics
    \/ CallDbscan
    \/ CallAlgorithm
    \/ CallCreate
    \/ CallDestroy
    \/ CallDynamic
    \/ CallEnsembles
    \/ CallScalar
    \/ CallPackage
    \/ Constructor
    \/ CallAppendCluster
    \/ CallAppendClusters
    \/ CallSetCanvasTitle
    \/ CallShow
    \/ Return

Spec == Init /\ [][Next]_vars

-----------------------------------------------------------------------------
(* Claims about the encoder.                                               *)

InEncoder == pc = "returned" /\ call.fn = "create_pointer_data"

Ragged(sample) == \E i, j \in DOMAIN sample : Len(sample[i]) # Len(sample[j])

\* C4: for every point set in which some row's length differs from another
\* row's (shorter or longer than the first row), the encoder fails with an
\* error and no header, index buffer or row buffer exists when it fails.
C4_RaggedFailsAllocatingNothing ==
    (InEncoder /\ Ragged(call.sample)) => (Raised(ret) /\ allocs = <<>>)

\* The errors the encoder raises for point sets of two rows.
ErrorsOfNonEmptyInput ==
    { create_pointer_data(<<a, b>>).r.raise : a, b \in Rows } \ {"none"}

\* C5: an empty point sequence fails with an error of its own, distinct
\* from the error of any other input, before any buffer is allocated.
C5_EmptyFailsDistinctly ==
    (InEncoder /\ call.sample = <<>>)
        => (Raised(ret) /\ ret.raise \notin ErrorsOfNonEmptyInput /\ allocs = <<>>)

Rectangular(sample) ==
    /\ Len(sample) >= 1 /\ Len(sample[1]) >= 1
    /\ \A i \in DOMAIN sample : Len(sample[i]) = Len(sample[1])

\* Row i, column j read through header -> pointer_objects -> row buffer.
ReadBack(al, header, i, j) == al[al[al[header].pointer_objects].cells[i]].cells[j]

\* C6: for every non-empty point set whose rows all have length d >= 1 the
\* structure has number_objects = number of rows, dimension = d, every row
\* buffer of length d, and row i, column j read through pointer_objects is
\* sample[i][j].
C6_EncodeRoundTrip ==
    (InEncoder /\ Rectangular(call.sample)) =>
        /\ ~Raised(ret)
        /\ LET header == ret.val.pointer
               sample == call.sample
           IN  /\ allocs[header].number_objects = Len(sample)
               /\ allocs[header].dimension = Len(sample[1])
               /\ \A i \in DOMAIN sample :
                    /\ Len(allocs[allocs[allocs[header].pointer_objects].cells[i]].cells)
                          = Len(sample[1])
                    /\ \A j \in DOMAIN sample[i] :
                          ReadBack(allocs, header, i, j) = sample[i][j]

\* A point set of two different rows of two different coordinates is encoded.
C6_Witness ==
    /\ InEncoder /\ call.sample = <<<<1, 2>>, <<2, 1>>>>
    /\ ~Raised(ret) /\ Len(allocs) = 4
    /\ ReadBack(allocs, 1, 1, 2) = 2 /\ ReadBack(allocs, 1, 2, 2) = 1

-----------------------------------------------------------------------------
(* Claims about the fixed-schema decoders and dbscan.                      *)

\* The Python list of the numbers of a foreign array.
PyList(array) == List([i \in DOMAIN array |-> Num(array[i])])

\* The engine's groups first..last as a Python list of lists.
PyGroups(res, first, last) ==
    List([i \in 1..(last - first + 1) |->
            PyList(res.pointer_clusters[first + i - 1].pointer_objects)])

InDbscan == pc = "returned" /\ call.fn = "dbscan" /\ mem # NoMem

\* C7: dbscan splits out exactly the last group of the engine's result: for
\* every result of k >= 1 groups it returns groups 0..k-2 in engine order
\* when return_noise is False and the pair (groups 0..k-2, group k-1) when
\* it is True, also when an earlier group has the contents of the last.
C7_DbscanSplitsLastGroup ==
    (InDbscan /\ mem.number_clusters >= 1) =>
        LET k == mem.number_clusters
            noise == PyList(mem.pointer_clusters[k].pointer_objects)
        IN  ret = IF call.return_noise
                    THEN Value(Tuple(<<PyGroups(mem, 1, k - 1), noise>>))
                  ELSE Value(PyGroups(mem, 1, k - 1))

InExtractClusters == pc = "returned" /\ call.fn = "extract_clusters"

\* C8: extract_clusters returns exactly number_clusters groups in engine
\* order, group i holding exactly the number_objects indexes of engine
\* group i in engine order.
C8_ClustersInEngineOrder ==
    InExtractClusters =>
        /\ ~Raised(ret)
        /\ Len(ret.val.list) = mem.number_clusters
        /\ \A i \in 1..mem.number_clusters :
             LET cluster == mem.pointer_clusters[i]
             IN  /\ Len(ret.val.list[i].list) = cluster.number_objects
                 /\ \A j \in 1..cluster.number_objects :
                      ret.val.list[i].list[j] = Num(cluster.pointer_objects[j])

\* Three groups, of two, no and one object, have been decoded.
C8_Witness ==
    /\ InExtractClusters /\ mem.number_clusters = 3
    /\ mem.pointer_clusters[1].pointer_objects = <<1, 0>>
    /\ ret = Value(List(<<List(<<Num(1), Num(0)>>), List(<<>>), List(<<Num(1)>>)>>))

InExtractDynamics == pc = "returned" /\ call.fn = "extract_dynamics"

\* C9: extract_dynamics returns (times, dynamic) with len(times) =
\* len(dynamic) = size_dynamic, every dynamic[i] of length size_network,
\* times[i] the engine's i-th time and dynamic[i][j] the engine's value of
\* node j at step i.
C9_DynamicsParallelLists ==
    InExtractDynamics =>
        /\ ~Raised(ret)
        /\ Len(ret.val.tuple) = 2
        /\ LET times == ret.val.tuple[1].list
               dynamic == ret.val.tuple[2].list
           IN  /\ Len(times) = mem.size_dynamic
               /\ Len(dynamic) = mem.size_dynamic
               /\ \A i \in 1..mem.size_dynamic :
                    /\ times[i] = Num(mem.times[i])
                    /\ Len(dynamic[i].list) = mem.size_network
                    /\ \A j \in 1..mem.size_network :
                         dynamic[i].list[j] = Num(mem.dynamic[i][j])

\* A dynamic of three steps of a network of two nodes has been decoded.
C9_Witness ==
    /\ InExtractDynamics /\ mem.size_dynamic = 3 /\ mem.size_network = 2
    /\ mem.dynamic = <<<<5, 6>>, <<6, 6>>, <<6, 5>>>>
    /\ ret.val.tuple[1] = List(<<Num(10), Num(20), Num(30)>>)
    /\ ret.val.tuple[2].list[3] = List(<<Num(6), Num(5)>>)

\* C10: decoding a dynamics result whose declared step count is 0 fails
\* with an error instead of returning a (times, dynamic) value.
C10_ZeroStepsFails ==
    (InExtractDynamics /\ mem.size_dynamic = 0) => Raised(ret)

-----------------------------------------------------------------------------
(* Claims about engine handles.                                            *)

\* The caller is back from a wrapper of an engine entry point.
InWrapper ==
    /\ pc = "returned"
    /\ call.fn \in AlgorithmWrappers \cup Creators \cup Destroyers \cup DynamicWrappers
                   \cup EnsembleWrappers \cup ScalarWrappers \cup PackageWrappers

Events(ev) == { i \in DOMAIN trace : trace[i].ev = ev }

ResultReleases == { i \in Events("release") : trace[i].target = Result }

\* The result handle the engine returned is not null.
ResultHandle ==
    \/ mem.kind \in {"clustering_result", "dynamic_result"}
    \/ mem.kind = "packages" /\ mem.handle # 0

\* C11: a wrapper that decoded the result handle the engine returned has
\* invoked a release entry point on that handle exactly once when it
\* returns.
C11_DecodedHandleReleasedOnce ==
    (InWrapper /\ ResultHandle /\ Events("decode") # {} /\ ~Raised(ret))
        => Cardinality(ResultReleases) = 1

\* The wrapper was given a pointer to an object of the engine.
TakesPointer == InWrapper /\ "pointer" \in DOMAIN call

\* C12: whatever calls the caller makes, no object of the engine is
\* released twice and no released object is passed to the engine again.
C12_NoDoubleReleaseNoUseAfterRelease ==
    /\ \A h \in DOMAIN engine : engine[h].releases <= 1
    /\ (TakesPointer /\ call.fn \notin Destroyers) => engine[call.pointer].releases = 0

DecodingRaised == \E i \in Events("decode") : trace[i].raised

\* C13: when decoding the result handle raises, the handle has still been
\* released exactly once when the error reaches the caller.
C13_ReleasedWhenDecodingRaises ==
    (InWrapper /\ DecodingRaised) => Cardinality(ResultReleases) = 1

\* C14: in one invocation the result handle is released only after its
\* decoding has completed, and nothing touches the handle after the release.
C14_ReleaseAfterDecoding ==
    InWrapper =>
        \A i \in ResultReleases :
            /\ \E j \in Events("decode") : j < i /\ ~trace[j].raised
            /\ \A k \in DOMAIN trace :
                 (k # i /\ trace[k].target = Result) =>
                     (k < i /\ trace[k].ev = "decode")

\* dbscan has split the noise off the decoded list and released the result.
C14_Witness ==
    /\ InWrapper
    /\ call.fn = "dbscan"
    /\ call.return_noise
    /\ ret = Value(Tuple(<<List(<<List(<<Num(0), Num(1)>>)>>), List(<<Num(1)>>)>>))
    /\ trace = <<EngineCall("dbscan_algorithm", NoTarget),
                 Decode("extract_clusters", ret),
                 Release("free_clustering_result", Result)>>

\* The point sets the algorithm wrapper was called with.
CallInputs ==
    {call.sample} \cup (IF "centers" \in DOMAIN call THEN {call.centers} ELSE {})

EncoderErrors ==
    { create_pointer_data(input).r : input \in
        { i \in CallInputs : Raised(create_pointer_data(i).r) } }

\* C15: an algorithm wrapper whose encoder fails on the sample or on the
\* centers raises that error and has called no engine entry point.
C15_EncoderFailsBeforeEngine ==
    (pc = "returned" /\ call.fn \in AlgorithmWrappers /\ EncoderErrors # {})
        => (ret \in EncoderErrors /\ trace = <<>>)

\* kmeans with a sample the encoder accepts and ragged centers.
C15_Witness ==
    /\ pc = "returned"
    /\ call.fn \in TwoSampleAlgorithms
    /\ ~Raised(create_pointer_data(call.sample).r)
    /\ Raised(create_pointer_data(call.centers).r)
    /\ Raised(ret)
    /\ trace = <<>>

-----------------------------------------------------------------------------
(* Claims about cluster_visualizer.                                        *)

InMethod(fn) == pc = "returned" /\ call.fn = fn

Canvases == 1..visualizer.number_canvases

\* The clusters of the descriptors stored on canvas c (from 1), in order.
StoredClusters(self, c) ==
    [i \in DOMAIN self.canvas_clusters[c] |-> self.canvas_clusters[c][i].cluster]

\* The append_clusters call used an existing canvas, non-empty clusters of
\* the dimension of that canvas, and the canvas had room for all of them.
WithinContract ==
    /\ InMethod("append_clusters")
    /\ call.canvas < call.before.number_canvases
    /\ \A i \in DOMAIN call.clusters :
         /\ Len(call.clusters[i]) > 0
         /\ DimensionOf(call.clusters[i], call.data)
              = DimensionOf(call.clusters[1], call.data)
    /\ \/ call.before.canvas_dimensions[call.canvas + 1] = None
       \/ call.before.canvas_dimensions[call.canvas + 1]
            = Num(DimensionOf(call.clusters[1], call.data))
    /\ Len(call.before.canvas_clusters[call.canvas + 1]) + Len(call.clusters)
         <= NumColors

\* C16: such a call raises nothing, stores the clusters after those of the
\* canvas in the order of the call, and leaves the other canvases and all
\* titles as they were.
C16_AppendClustersWithinContract ==
    WithinContract =>
        /\ ~Raised(ret)
        /\ StoredClusters(visualizer, call.canvas + 1)
             = StoredClusters(call.before, call.canvas + 1) \o call.clusters
        /\ \A c \in Canvases \ {call.canvas + 1} :
             /\ visualizer.canvas_clusters[c] = call.before.canvas_clusters[c]
             /\ visualizer.canvas_dimensions[c] = call.before.canvas_dimensions[c]
        /\ visualizer.canvas_titles = call.before.canvas_titles

\* Twenty clusters were put at once on the second canvas of two, after the
\* first canvas had got clusters and a title.
C16_Witness ==
    /\ WithinContract
    /\ call.canvas = 1
    /\ Len(call.clusters) = NumColors
    /\ Len(visualizer.canvas_clusters[2]) = NumColors
    /\ Len(visualizer.canvas_clusters[1]) = 2
    /\ visualizer.canvas_titles[1] = Str("title")

\* C17: on every canvas all stored descriptors have the dimension recorded
\* for the canvas, also after calls that raised.
C17_StoredDimensionsAgree ==
    visualizer.constructed =>
        \A c \in Canvases : \A i \in DOMAIN visualizer.canvas_clusters[c] :
            LET descr == visualizer.canvas_clusters[c][i]
            IN  Num(DimensionOf(descr.cluster, descr.data))
                    = visualizer.canvas_dimensions[c]

\* C18: no canvas ever holds more descriptors than there are colors, and
\* show() never fails to find a color.
C18_NeverMoreThanColors ==
    visualizer.constructed =>
        /\ \A c \in Canvases : Len(visualizer.canvas_clusters[c]) <= NumColors
        /\ InMethod("show") => ~Raised(ret)

SameFields(self, before) ==
    /\ self.canvas_clusters = before.canvas_clusters
    /\ self.canvas_dimensions = before.canvas_dimensions
    /\ self.canvas_titles = before.canvas_titles

\* C19: append_cluster with a non-empty cluster and set_canvas_title, given
\* a canvas number that is no canvas, raise NameError and change nothing.
C19_NoSuchCanvasIsNameError ==
    ( /\ \/ InMethod("append_cluster") /\ Len(call.cluster) > 0
         \/ InMethod("set_canvas_title")
      /\ call.canvas >= call.before.number_canvases )
        => (ret = Raise("NameError") /\ SameFields(visualizer, call.before))

\* C20: the dimension recorded for a canvas is None, 1, 2 or 3.
C20_RecordedDimensionInRange ==
    visualizer.constructed =>
        \A c \in Canvases :
            visualizer.canvas_dimensions[c] \in {None, Num(1), Num(2), Num(3)}
====
